---- MODULE Spec2Model ----
(***************************************************************************)
(* Model of the PFT Task Node SDK (src/sdk): validation helpers, the       *)
(* pointer memo codec, the payment transaction builder, the pinning        *)
(* helpers, the high-level client and the transaction signer.              *)
(*                                                                         *)
(* Python values are modelled with their type:                             *)
(*   text    [t |-> "str",   s |-> <<code points>>]                         *)
(*   bytes   [t |-> "bytes", s |-> <<0..255>>]                              *)
(*   None    [t |-> "NoneType", ...]                                        *)
(*   int     [t |-> "int", neg, hi, lo]  value = (+/-)(hi * 2^16 + lo);     *)
(*           Python integers are unbounded and the code is exercised       *)
(*           beyond 2^31 - 1, so an integer is kept as two limbs.          *)
(* A call's outcome is a record: status "return" with a value, or status   *)
(* "raise" with the exception class, its message (a tuple of message       *)
(* parts) and the class of the exception it was raised from.               *)
(***************************************************************************)
EXTENDS Integers, Sequences, FiniteSets, TLC

VARIABLES op, args, pc, out, calls

vars == <<op, args, pc, out, calls>>

----------------------------------------------------------------------------
(* Values *)

Limb == 2^16

Str(s) == [t |-> "str", s |-> s]
Bytes(s) == [t |-> "bytes", s |-> s]
NoneVal == [t |-> "NoneType", s |-> <<>>]

Big(hi, lo) == [t |-> "int", neg |-> FALSE, hi |-> hi, lo |-> lo]
Nat2Int(n) == Big(n \div Limb, n % Limb)
NegInt(n) == [t |-> "int", neg |-> TRUE, hi |-> n \div Limb, lo |-> n % Limb]
NoneInt == [t |-> "NoneType", neg |-> FALSE, hi |-> 0, lo |-> 0]
NotInt == [t |-> "str", neg |-> FALSE, hi |-> 0, lo |-> 0]

IntGt(a, b) ==
    IF a.neg /= b.neg THEN b.neg
    ELSE IF a.neg THEN (a.hi < b.hi \/ (a.hi = b.hi /\ a.lo < b.lo))
    ELSE (a.hi > b.hi \/ (a.hi = b.hi /\ a.lo > b.lo))

IntIsZero(a) == a.hi = 0 /\ a.lo = 0

\* Faulty variant: the mask 0xFF for 0x7F
IntAnd7F_mask_ff(a) == a.lo % 256

\* value & 0x7F and value >> 7 of a non-negative integer
IntAnd7F(a) == a.lo % 128
IntShr7(a) == Big(a.hi \div 128, (a.lo \div 128) + (a.hi % 128) * (Limb \div 128))

----------------------------------------------------------------------------
(* Outcomes *)

NoValue == <<>>

Return(v) == [status |-> "return", value |-> v, exc |-> "", msg |-> <<>>, cause |-> ""]
Raise(exc, msg, cause) ==
    [status |-> "raise", value |-> NoValue, exc |-> exc, msg |-> msg, cause |-> cause]
Raised(r) == r.status = "raise"
Pending == [status |-> "pending", value |-> NoValue, exc |-> "", msg |-> <<>>, cause |-> ""]

\* The outcome of a block of statements run in order: the first that raises
FirstRaise(rs) ==
    IF \E i \in 1..Len(rs) : Raised(rs[i])
    THEN rs[CHOOSE i \in 1..Len(rs) : Raised(rs[i]) /\ \A j \in 1..(i - 1) : ~Raised(rs[j])]
    ELSE Return(NoValue)

----------------------------------------------------------------------------
(* validation.py *)

MAX_INT32 == 2147483647

bafk == <<98, 97, 102, 107>>
bafy == <<98, 97, 102, 121>>
CID_PREFIXES == {bafk, bafy}

startswith(s, p) == Len(s) >= Len(p) /\ SubSeq(s, 1, Len(p)) = p

validate_nonempty_content(content) ==
    IF content.t /= "bytes" \/ Len(content.s) = 0
    THEN Raise("ValidationError", <<"content must be non-empty bytes">>, "")
    ELSE Return(NoValue)

validate_cid(cid) ==
    IF cid.t /= "str" \/ Len(cid.s) = 0
    THEN Raise("ValidationError", <<"cid must be a non-empty string">>, "")
    ELSE IF ~(\E p \in CID_PREFIXES : startswith(cid.s, p)) \/ Len(cid.s) < 20
    THEN Raise("ValidationError", <<"cid has unexpected format: ", cid.s>>, "")
    ELSE Return(NoValue)

\* [1-9A-HJ-NP-Za-km-z]
AddressAlphabet ==
    (49..57) \cup (65..72) \cup (74..78) \cup (80..90) \cup (97..107) \cup (109..122)

\* re.fullmatch(r"r[1-9A-HJ-NP-Za-km-z]{24,34}", address)
AddressMatches(s) ==
    /\ Len(s) >= 1 + 24
    /\ Len(s) <= 1 + 34
    /\ s[1] = 114
    /\ \A i \in 2..Len(s) : s[i] \in AddressAlphabet

validate_xrp_address(address) ==
    IF address.t /= "str" \/ Len(address.s) = 0
    THEN Raise("ValidationError", <<"address must be a non-empty string">>, "")
    ELSE IF ~AddressMatches(address.s)
    THEN Raise("ValidationError", <<"invalid XRP address format: ", address.s>>, "")
    ELSE Return(NoValue)

validate_non_negative_int(value, name) ==
    IF value.t /= "int" \/ value.neg
    THEN Raise("ValidationError", <<name, " must be a non-negative integer">>, "")
    ELSE IF IntGt(value, Nat2Int(MAX_INT32))
    THEN Raise("ValidationError", <<name, " must be <= ", MAX_INT32>>, "")
    ELSE Return(NoValue)

http == <<104, 116, 116, 112, 58, 47, 47>>
https == <<104, 116, 116, 112, 115, 58, 47, 47>>

validate_url(url) ==
    IF url.t /= "str" \/ Len(url.s) = 0
    THEN Raise("ValidationError", <<"url must be a non-empty string">>, "")
    ELSE IF ~(startswith(url.s, http) \/ startswith(url.s, https))
    THEN Raise("ValidationError", <<"url must start with http:// or https://: ", url.s>>, "")
    ELSE Return(NoValue)

----------------------------------------------------------------------------
(* pointer.py *)

POINTER_KIND == [TASK_SUBMISSION |-> 6]

RECURSIVE varint_loop(_, _)
varint_loop(value, bytes) ==
    LET to_write == IntAnd7F(value)
        rest == IntShr7(value)
    IN  IF ~IntIsZero(rest)
        THEN varint_loop(rest, Append(bytes, to_write + 128))
        ELSE Append(bytes, to_write)

encode_varint(value) ==
    IF value.neg
    THEN Raise("ValueError", <<"varint cannot be negative">>, "")
    ELSE Return(varint_loop(value, <<>>))

\* (field_number << 3) | wire_type, for wire_type < 8
encode_key(field_number, wire_type) ==
    encode_varint(Nat2Int(field_number * 8 + wire_type))

\* str.encode("utf-8") of one code point
Utf8Char(c) ==
    IF c < 128 THEN <<c>>
    ELSE IF c < 2048 THEN <<192 + (c \div 64), 128 + (c % 64)>>
    ELSE IF c < 65536
    THEN <<224 + (c \div 4096), 128 + ((c \div 64) % 64), 128 + (c % 64)>>
    ELSE <<240 + (c \div 262144), 128 + ((c \div 4096) % 64),
           128 + ((c \div 64) % 64), 128 + (c % 64)>>

RECURSIVE Utf8(_)
Utf8(s) ==
    IF Len(s) = 0 THEN <<>>
    ELSE IF Len(s) = 1 THEN Utf8Char(s[1])
    ELSE LET h == Len(s) \div 2
         IN  Utf8(SubSeq(s, 1, h)) \o Utf8(SubSeq(s, h + 1, Len(s)))

\* Faulty variant: the length prefix counts characters, not UTF-8 bytes
encode_string_char_length(field_number, value) ==
    encode_key(field_number, 2).value
        \o encode_varint(Nat2Int(Len(value.s))).value
        \o Utf8(value.s)

encode_string(field_number, value) ==
    LET encoded == Utf8(value.s)
    IN  encode_key(field_number, 2).value
            \o encode_varint(Nat2Int(Len(encoded))).value
            \o encoded

encode_varint_field(field_number, value) ==
    encode_key(field_number, 0).value \o encode_varint(value).value

encode_pointer_fields(cid, kind, schema, flags, unknown8) ==
    encode_string(1, cid)
        \o encode_varint_field(2, schema)
        \o encode_varint_field(3, Nat2Int(POINTER_KIND[kind]))
        \o encode_varint_field(4, flags)
        \o (IF unknown8.t /= "NoneType" THEN encode_varint_field(8, unknown8) ELSE <<>>)

encode_pointer_validate(cid, schema, flags, unknown8) ==
    LET r == FirstRaise(<<validate_cid(cid),
                          validate_non_negative_int(schema, "schema"),
                          validate_non_negative_int(flags, "flags"),
                          IF unknown8.t /= "NoneType"
                          THEN validate_non_negative_int(unknown8, "unknown8")
                          ELSE Return(NoValue)>>)
    IN  IF Raised(r) THEN Raise("ValueError", r.msg, r.exc) ELSE r

\* Faulty variant: the fields are validated before the kind is looked up
encode_pointer_memo_fields_first(cid, kind, schema, flags, unknown8) ==
    LET v == encode_pointer_validate(cid, schema, flags, unknown8)
    IN  IF Raised(v) THEN v
        ELSE IF kind \notin DOMAIN POINTER_KIND
        THEN Raise("ValueError", <<"Unknown pointer kind: ", kind>>, "")
        ELSE Return(encode_pointer_fields(cid, kind, schema, flags, unknown8))

encode_pointer_memo(cid, kind, schema, flags, unknown8) ==
    IF kind \notin DOMAIN POINTER_KIND
    THEN Raise("ValueError", <<"Unknown pointer kind: ", kind>>, "")
    ELSE LET v == encode_pointer_validate(cid, schema, flags, unknown8)
         IN  IF Raised(v) THEN v
             ELSE Return(encode_pointer_fields(cid, kind, schema, flags, unknown8))

----------------------------------------------------------------------------
(* transaction.py *)

DEFAULT_DESTINATION_TEXT ==
    <<114, 119, 100, 109, 55, 50, 83, 57, 89, 86, 75, 107, 90, 106, 101, 65, 68,
      75, 85, 50, 98, 98, 85, 77, 117, 89, 52, 118, 80, 110, 83, 102, 72, 55>>
DEFAULT_DESTINATION == Str(DEFAULT_DESTINATION_TEXT)
\* "pf.ptr"
DEFAULT_MEMO_TYPE == Str(<<112, 102, 46, 112, 116, 114>>)
\* "1"
DEFAULT_AMOUNT_DROPS == Str(<<49>>)
MAX_MEMO_BYTES == 1024

\* Characters str.isdigit() accepts: the decimal digits (ASCII 0-9 and, of the
\* other Unicode decimal digits, ARABIC-INDIC DIGIT ZERO..NINE) and the digits
\* that are not decimal (SUPERSCRIPT TWO, THREE, ONE)
IsDecimalChar(c) == c \in 48..57 \/ c \in 1632..1641
IsDigitChar(c) == IsDecimalChar(c) \/ c \in {178, 179, 185}
DecimalValue(c) == IF c \in 48..57 THEN c - 48 ELSE c - 1632

isdigit(s) == Len(s) > 0 /\ \A i \in 1..Len(s) : IsDigitChar(s[i])

RECURSIVE DecimalInt(_)
DecimalInt(s) ==
    IF Len(s) = 0 THEN 0
    ELSE 10 * DecimalInt(SubSeq(s, 1, Len(s) - 1)) + DecimalValue(s[Len(s)])

\* int(s) for a string isdigit() accepts
int(s) ==
    IF \A i \in 1..Len(s) : IsDecimalChar(s[i])
    THEN Return(DecimalInt(s))
    ELSE Raise("ValueError", <<"invalid literal for int() with base 10: ", s>>, "")

check_amount_drops(amount_drops) ==
    IF amount_drops.t /= "str"
    THEN Raise("AttributeError", <<"object has no attribute 'isdigit'">>, "")
    ELSE IF ~isdigit(amount_drops.s)
    THEN Raise("ValueError", <<"amount_drops must be a positive integer string">>, "")
    ELSE LET n == int(amount_drops.s)
         IN  IF Raised(n) THEN n
             ELSE IF n.value <= 0
             THEN Raise("ValueError", <<"amount_drops must be a positive integer string">>, "")
             ELSE Return(NoValue)

HexDigit(n) == IF n < 10 THEN 48 + n ELSE 97 + (n - 10)

\* bytes.hex()
hex(b) ==
    Str([i \in 1..(2 * Len(b)) |->
            IF i % 2 = 1 THEN HexDigit(b[(i + 1) \div 2] \div 16)
            ELSE HexDigit(b[i \div 2] % 16)])

\* Faulty variant: the CID is validated before the addresses
build_validate_cid_first(account, destination, cid, schema, flags) ==
    LET r == FirstRaise(<<validate_cid(cid),
                          validate_xrp_address(account),
                          validate_xrp_address(destination),
                          validate_non_negative_int(schema, "schema"),
                          validate_non_negative_int(flags, "flags")>>)
    IN  IF Raised(r) THEN Raise("ValueError", r.msg, r.exc) ELSE r

build_validate(account, destination, cid, schema, flags) ==
    LET r == FirstRaise(<<validate_xrp_address(account),
                          validate_xrp_address(destination),
                          validate_cid(cid),
                          validate_non_negative_int(schema, "schema"),
                          validate_non_negative_int(flags, "flags")>>)
    IN  IF Raised(r) THEN Raise("ValueError", r.msg, r.exc) ELSE r

\* Faulty variant: >= for >
check_memo_size_off_by_one(memo_payload) ==
    IF Len(memo_payload) >= MAX_MEMO_BYTES
    THEN Raise("ValueError",
               <<"MemoData too large: ", Len(memo_payload), " bytes (max ",
                 MAX_MEMO_BYTES, ")">>, "")
    ELSE Return(NoValue)

check_memo_size(memo_payload) ==
    IF Len(memo_payload) > MAX_MEMO_BYTES
    THEN Raise("ValueError",
               <<"MemoData too large: ", Len(memo_payload), " bytes (max ",
                 MAX_MEMO_BYTES, ")">>, "")
    ELSE Return(NoValue)

\* Faulty variant: Account and Destination exchanged
descriptor_swapped(account, destination, amount_drops, memo_payload) ==
    [TransactionType |-> "Payment",
     Account |-> destination,
     Destination |-> account,
     Amount |-> amount_drops,
     Memos |-> <<[Memo |-> [MemoType |-> hex(Utf8(DEFAULT_MEMO_TYPE.s)),
                            MemoData |-> hex(memo_payload)]]>>]

descriptor(account, destination, amount_drops, memo_payload) ==
    [TransactionType |-> "Payment",
     Account |-> account,
     Destination |-> destination,
     Amount |-> amount_drops,
     Memos |-> <<[Memo |-> [MemoType |-> hex(Utf8(DEFAULT_MEMO_TYPE.s)),
                            MemoData |-> hex(memo_payload)]]>>]

build_pointer_transaction(account, cid, kind, destination, schema, flags, amount_drops) ==
    LET v == build_validate(account, destination, cid, schema, flags)
    IN  IF Raised(v) THEN v
        ELSE LET memo == encode_pointer_memo(cid, kind, schema, flags, Nat2Int(1))
             IN  IF Raised(memo) THEN memo
                 ELSE LET a == check_amount_drops(amount_drops)
                      IN  IF Raised(a) THEN a
                          ELSE LET m == check_memo_size(memo.value)
                               IN  IF Raised(m) THEN m
                                   ELSE Return(descriptor(account, destination,
                                                          amount_drops, memo.value))

----------------------------------------------------------------------------
(* ipfs.py *)

\* not x, for a string or None
Falsy(x) == x.t = "NoneType" \/ Len(x.s) = 0

\* Replies of the external services (the IPFS daemon, web3.storage, the ledger
\* node): what the awaited call returned, or that it raised or timed out
NoResult == [engine_result |-> NoneVal, hash |-> NoneVal,
             has_tx_json |-> FALSE, tx_json_hash |-> NoneVal]
Reply(kind) == [kind |-> kind, cid |-> NoneVal, pin_add_raises |-> FALSE, result |-> NoResult]
CidReply(cid, pin_add_raises) ==
    [kind |-> "cid", cid |-> cid, pin_add_raises |-> pin_add_raises, result |-> NoResult]
ResultReply(result) ==
    [kind |-> "result", cid |-> NoneVal, pin_add_raises |-> FALSE, result |-> result]

ImportCheck(installed, library) ==
    IF installed THEN Return(NoValue)
    ELSE Raise("ImportError", <<"No module named ", library>>, "")

\* pin_content up to its awaited call
pin_content_checks(content, endpoint, installed) ==
    LET r == FirstRaise(<<validate_nonempty_content(content),
                          validate_url(endpoint),
                          ImportCheck(installed, "ipfshttpclient")>>)
    IN  IF ~Raised(r) THEN r
        ELSE IF r.exc = "ImportError"
        THEN Raise("IPFSPinningError",
                   <<"ipfshttpclient not installed. Run: pip install ipfshttpclient">>,
                   "ImportError")
        ELSE Raise("IPFSPinningError", r.msg, r.exc)

\* pin_content from the return of asyncio.wait_for(asyncio.to_thread(_pin)):
\* _pin swallows a failure of client.pin.add
pin_content_result(reply) ==
    IF reply.kind = "raise"
    THEN Raise("IPFSPinningError", <<"Failed to pin content: ", "service error">>, "Exception")
    ELSE IF reply.kind = "timeout"
    THEN Raise("IPFSPinningError", <<"Failed to pin content: ", "">>, "TimeoutError")
    ELSE IF Falsy(reply.cid)
    THEN Raise("IPFSPinningError",
               <<"Failed to pin content: ", "IPFS returned empty CID">>, "IPFSPinningError")
    ELSE Return(reply.cid)

\* pin_content_via_web3_storage up to its awaited call
web3_checks(content, api_token, upload_url, installed) ==
    LET r == FirstRaise(<<validate_nonempty_content(content),
                          ImportCheck(installed, "httpx")>>)
    IN  IF Raised(r)
        THEN IF r.exc = "ImportError"
             THEN Raise("IPFSPinningError",
                        <<"httpx not installed. Run: pip install httpx">>, "ImportError")
             ELSE Raise("IPFSPinningError", r.msg, r.exc)
        ELSE IF Falsy(api_token)
        THEN Raise("IPFSPinningError", <<"web3.storage api_token is required">>, "")
        ELSE LET u == validate_url(upload_url)
             IN  IF Raised(u) THEN Raise("IPFSPinningError", u.msg, u.exc) ELSE u

\* pin_content_via_web3_storage from the return of client.post
web3_result(reply) ==
    IF reply.kind \in {"raise", "timeout"}
    THEN Raise("IPFSPinningError",
               <<"web3.storage upload failed: ", "service error">>, "Exception")
    ELSE IF Falsy(reply.cid)
    THEN Raise("IPFSPinningError",
               <<"web3.storage upload failed: ", "web3.storage response missing cid">>,
               "IPFSPinningError")
    ELSE Return(reply.cid)

----------------------------------------------------------------------------
(* client.py *)

DEFAULT_UPLOAD_URL ==
    Str(https \o <<97, 112, 105, 46, 119, 101, 98, 51, 46, 115, 116, 111, 114, 97,
                  103, 101, 47, 117, 112, 108, 111, 97, 100>>)

\* PFTClient.pin_and_build_pointer up to the awaited call of the pinning helper
client_pin_checks(content, endpoint, use_web3_storage_token, installed) ==
    LET c == validate_nonempty_content(content)
    IN  IF Raised(c) THEN Raise("PFTClientError", <<"Pinning failed: ">> \o c.msg, c.exc)
        ELSE LET p == IF ~Falsy(use_web3_storage_token)
                      THEN web3_checks(content, use_web3_storage_token,
                                       DEFAULT_UPLOAD_URL, installed)
                      ELSE pin_content_checks(content, endpoint, installed)
             IN  IF Raised(p)
                 THEN Raise("PFTClientError", <<"Pinning failed: ">> \o p.msg, p.exc)
                 ELSE p

\* PFTClient.pin_and_build_pointer from the return of the pinning service
client_pin_result(address, kind, schema, flags, use_web3_storage_token, reply) ==
    LET p == IF ~Falsy(use_web3_storage_token) THEN web3_result(reply)
             ELSE pin_content_result(reply)
    IN  IF Raised(p) THEN Raise("PFTClientError", <<"Pinning failed: ">> \o p.msg, p.exc)
        ELSE LET tx == build_pointer_transaction(address, p.value, kind,
                                                 DEFAULT_DESTINATION, schema, flags,
                                                 DEFAULT_AMOUNT_DROPS)
             IN  IF Raised(tx)
                 THEN Raise("PFTClientError",
                            <<"Transaction build failed: ">> \o tx.msg, tx.exc)
                 ELSE Return(<<p.value, tx.value>>)

----------------------------------------------------------------------------
(* signer.py *)

\* TransactionSigner.sign up to Payment.from_dict / autofill_and_sign
sign_checks(tx_json, installed) ==
    IF ~installed
    THEN Raise("SigningError", <<"xrpl-py not installed. Run: pip install xrpl-py">>,
               "ImportError")
    ELSE IF tx_json.t /= "dict" \/ tx_json.d = {}
    THEN Raise("SigningError", <<"tx_json must be a non-empty dict">>, "")
    ELSE Return(NoValue)

\* TransactionSigner.sign_and_submit up to the call that signs
sign_and_submit_checks(tx_json, installed) ==
    IF ~installed
    THEN Raise("SigningError", <<"xrpl-py not installed. Run: pip install xrpl-py">>,
               "ImportError")
    ELSE LET s == sign_checks(tx_json, installed)
         IN  IF Raised(s)
             THEN Raise("SigningError", <<"Failed to submit transaction: ">> \o s.msg, s.exc)
             ELSE s

\* TransactionSigner.sign_and_submit from the return of the call that signs
sign_result(reply) ==
    IF reply.kind = "raise"
    THEN Raise("SigningError",
               <<"Failed to submit transaction: ", "Failed to sign transaction: ",
                 "service error">>, "SigningError")
    ELSE Return(NoValue)

\* result.get("hash") or result.get("tx_json", {}).get("hash")
result_hash(result) ==
    IF ~Falsy(result.hash) THEN result.hash
    ELSE IF result.has_tx_json THEN result.tx_json_hash
    ELSE NoneVal

\* Faulty variant: the engine result is not looked at
submit_result_any_engine_result(reply) ==
    IF reply.kind = "raise"
    THEN Raise("SigningError", <<"Failed to submit transaction: ", "service error">>,
               "Exception")
    ELSE LET tx_hash == result_hash(reply.result)
         IN  IF Falsy(tx_hash)
             THEN Raise("SigningError",
                        <<"Transaction submitted but no tx hash returned">>, "")
             ELSE Return(tx_hash)

\* TransactionSigner.sign_and_submit from the return of submit_and_wait
submit_result(reply) ==
    IF reply.kind = "raise"
    THEN Raise("SigningError", <<"Failed to submit transaction: ", "service error">>,
               "Exception")
    ELSE IF reply.result.engine_result /= Str(<<"tesSUCCESS">>)
    THEN Raise("SigningError", <<"Transaction failed: ", reply.result>>, "")
    ELSE LET tx_hash == result_hash(reply.result)
         IN  IF Falsy(tx_hash)
             THEN Raise("SigningError",
                        <<"Transaction submitted but no tx hash returned">>, "")
             ELSE Return(tx_hash)

----------------------------------------------------------------------------
(* Inputs *)

\* How far around MAX_MEMO_BYTES the long CIDs put the memo payload
MemoSlack == 1
\* Longest amount_drops string drawn
MaxAmountLen == 2

\* "bafkreiTESTCID1234567890" (tests/test_pointer.py)
TEST_CID == Str(<<98, 97, 102, 107, 114, 101, 105, 84, 69, 83, 84, 67, 73, 68, 49, 50, 51, 52, 53, 54, 55, 56, 57, 48>>)
\* "r9cZA1mLK5R5Am25ArfXFmqgNwjZgnfk59" (tests/test_validation.py)
TEST_ADDRESS == Str(<<114, 57, 99, 90, 65, 49, 109, 76, 75, 53, 82, 53, 65, 109, 50, 53, 65, 114, 102, 88, 70, 109, 113, 103, 78, 119, 106, 90, 103, 110, 102, 107, 53, 57>>)
\* "http://127.0.0.1:5001"
DEFAULT_ENDPOINT == Str(<<104, 116, 116, 112, 58, 47, 47, 49, 50, 55, 46, 48, 46, 48, 46, 49, 58, 53, 48, 48, 49>>)

\* A string of n characters: the prefix, then the filler
Padded(prefix, n, filler) ==
    Str([i \in 1..n |-> IF i <= Len(prefix) THEN prefix[i] ELSE filler])

\* A payload is the CID's bytes and 11 more when the CID takes 128..16383
\* bytes and schema, flags and the reserved field are below 128
LongCidLens ==
    (MAX_MEMO_BYTES - 11 - MemoSlack)..(MAX_MEMO_BYTES - 11 + MemoSlack)

LongCids == {Padded(bafy, n, 97) : n \in LongCidLens}

Cids ==
    {TEST_CID, Str(<<>>), NoneVal,
     Padded(bafk, 19, 97), Padded(bafk, 20, 97), Padded(bafy, 20, 50),
     \* "Qm..." (a CIDv0) and "baf"
     Padded(<<81, 109>>, 46, 97), Padded(<<98, 97, 102>>, 3, 97),
     \* non-ASCII text: e-acute, euro sign, an emoji
     Padded(bafk, 20, 233), Padded(bafk \o <<8364, 128512>>, 22, 97),
     \* around the 1-byte / 2-byte length prefix
     Padded(bafk, 127, 97), Padded(bafk, 128, 97), Padded(bafk, 70, 233)}
        \cup LongCids

FewCids == {TEST_CID, Str(<<>>), Padded(<<81, 109>>, 46, 97), Padded(bafk, 20, 233)}

Kinds == {"TASK_SUBMISSION", "task_submission", ""}

IntValues ==
    {Nat2Int(n) : n \in {0, 1, 127, 128, 300, 16383, 16384, 2097151, 2097152,
                         268435455, 268435456, MAX_INT32}}
        \cup {Big(2^15, 0), Big(2^15, 1), Big(2^16, 0), Big(2^19, 77)}
        \cup {NegInt(1), NegInt(128), NegInt(MAX_INT32)}

FieldValues == IntValues \cup {NotInt}
FewFieldValues == {Nat2Int(1), NegInt(1), Big(2^15, 0), NotInt}

Addresses ==
    {DEFAULT_DESTINATION, TEST_ADDRESS, Str(<<>>), NoneVal,
     \* "not_an_address"
     Str(<<110, 111, 116, 95, 97, 110, 95, 97, 100, 100, 114, 101, 115, 115>>),
     Padded(<<114>>, 24, 65), Padded(<<114>>, 25, 65),
     Padded(<<114>>, 35, 122), Padded(<<114>>, 36, 122),
     \* a 0, an l, an O, an I inside; a leading x
     Padded(<<114, 48>>, 30, 65), Padded(<<114, 108>>, 30, 65),
     Padded(<<114, 79>>, 30, 65), Padded(<<114, 73>>, 30, 65),
     Padded(<<120>>, 30, 65)}

FewAddresses == {TEST_ADDRESS, Str(<<110, 111, 116, 95, 97, 110, 95, 97, 100, 100, 114, 101, 115, 115>>), NoneVal}

\* 0, 1, -, a, SUPERSCRIPT TWO, ARABIC-INDIC DIGIT ONE
AmountAlphabet == {48, 49, 45, 97, 178, 1633}

RECURSIVE StringsUpTo(_)
StringsUpTo(n) ==
    IF n = 0 THEN {<<>>}
    ELSE LET shorter == StringsUpTo(n - 1)
         IN  shorter \cup {Append(s, c) : s \in shorter, c \in AmountAlphabet}

Amounts == {Str(s) : s \in StringsUpTo(MaxAmountLen)} \cup {NoneVal}
\* "1", "0", "-1"
FewAmounts == {DEFAULT_AMOUNT_DROPS, Str(<<48>>), Str(<<45, 49>>)}

Contents == {Bytes(<<104, 105>>), Bytes(<<0>>), Bytes(<<>>), NoneVal, Str(<<104, 105>>)}

Endpoints ==
    {DEFAULT_ENDPOINT, DEFAULT_UPLOAD_URL, Str(<<>>), NoneVal,
     \* "ftp://example.com", "/ip4/127.0.0.1/tcp/5001"
     Str(<<102, 116, 112, 58, 47, 47, 101, 120, 97, 109, 112, 108, 101, 46, 99, 111, 109>>),
     Str(<<47, 105, 112, 52, 47, 49, 50, 55, 46, 48, 46, 48, 46, 49, 47, 116, 99, 112, 47, 53, 48, 48, 49>>)}

Tokens == {NoneVal, Str(<<>>), Str(<<116, 111, 107>>)}

TxJsons ==
    {[t |-> "dict", d |-> {"TransactionType", "Account", "Destination", "Amount", "Memos"}],
     [t |-> "dict", d |-> {"TransactionType"}],
     [t |-> "dict", d |-> {}],
     [t |-> "list", d |-> {"Payment"}],
     [t |-> "NoneType", d |-> {}]}

PinReplies ==
    {Reply("raise"), Reply("timeout")}
        \cup {CidReply(c, b) : c \in Cids, b \in BOOLEAN}

SignReplies == {Reply("raise"), Reply("signed")}

\* Text of the ledger's reply, kept whole
Text(x) == Str(<<x>>)
EngineResults == {Text("tesSUCCESS"), Text("tecNO_DST"), Text("tessuccess"), NoneVal}
Hashes == {Text("E3B0C442"), Str(<<>>), NoneVal}

SubmitReplies ==
    {Reply("raise")}
        \cup {ResultReply([engine_result |-> e, hash |-> h, has_tx_json |-> FALSE,
                           tx_json_hash |-> NoneVal]) :
                e \in EngineResults, h \in Hashes}
        \cup {ResultReply([engine_result |-> e, hash |-> h, has_tx_json |-> TRUE,
                           tx_json_hash |-> j]) :
                e \in EngineResults, h \in Hashes, j \in Hashes}

NoArgs ==
    [value |-> Nat2Int(0), cid |-> NoneVal, kind |-> "TASK_SUBMISSION",
     schema |-> Nat2Int(1), flags |-> Nat2Int(1), unknown8 |-> Nat2Int(1),
     account |-> TEST_ADDRESS, destination |-> DEFAULT_DESTINATION,
     amount_drops |-> DEFAULT_AMOUNT_DROPS, content |-> NoneVal,
     endpoint |-> DEFAULT_ENDPOINT, api_token |-> NoneVal,
     upload_url |-> DEFAULT_UPLOAD_URL, installed |-> TRUE,
     tx_json |-> [t |-> "NoneType", d |-> {}]]

EncodeVarintArgs == {[NoArgs EXCEPT !.value = v] : v \in IntValues}

EncodePointerMemoArgs ==
    {[NoArgs EXCEPT !.cid = c, !.kind = k, !.schema = s, !.flags = f, !.unknown8 = u] :
        c \in FewCids, k \in {"TASK_SUBMISSION", "task_submission"},
        s \in FewFieldValues, f \in FewFieldValues, u \in FewFieldValues \cup {NoneInt}}
    \cup {[NoArgs EXCEPT !.cid = c, !.kind = k, !.unknown8 = u] :
            c \in Cids, k \in Kinds, u \in {Nat2Int(1), NoneInt}}
    \cup {[NoArgs EXCEPT !.cid = TEST_CID, !.schema = s, !.flags = f, !.unknown8 = u] :
            s \in FieldValues, f \in {Nat2Int(1), Nat2Int(300)},
            u \in {Nat2Int(0), NoneInt}}
    \cup {[NoArgs EXCEPT !.cid = TEST_CID, !.flags = f, !.unknown8 = u] :
            f \in FieldValues, u \in FieldValues \cup {NoneInt}}

BuildArgs ==
    {[NoArgs EXCEPT !.account = a, !.destination = d, !.cid = c, !.kind = k,
                    !.schema = s, !.flags = f, !.amount_drops = m] :
        a \in FewAddresses, d \in {DEFAULT_DESTINATION, Str(<<>>)},
        c \in FewCids \cup {Padded(bafy, MAX_MEMO_BYTES, 97)},
        k \in {"TASK_SUBMISSION", "task_submission"},
        s \in {Nat2Int(1), NegInt(1)}, f \in {Nat2Int(1), Big(2^15, 0)},
        m \in FewAmounts}
    \cup {[NoArgs EXCEPT !.cid = TEST_CID, !.amount_drops = m] : m \in Amounts}
    \cup {[NoArgs EXCEPT !.cid = c, !.schema = s, !.flags = f] :
            c \in Cids, s \in {Nat2Int(1), Nat2Int(128), Nat2Int(MAX_INT32)},
            f \in {Nat2Int(0), Nat2Int(16384)}}
    \cup {[NoArgs EXCEPT !.cid = TEST_CID, !.account = a, !.destination = d] :
            a \in Addresses, d \in Addresses}
    \cup {[NoArgs EXCEPT !.cid = TEST_CID, !.schema = s, !.flags = f] :
            s \in FieldValues, f \in FewFieldValues}

PinContentArgs ==
    {[NoArgs EXCEPT !.content = c, !.endpoint = e, !.installed = i] :
        c \in Contents, e \in Endpoints, i \in BOOLEAN}

Web3Args ==
    {[NoArgs EXCEPT !.content = c, !.api_token = t, !.upload_url = u, !.installed = i] :
        c \in Contents, t \in Tokens, u \in Endpoints, i \in BOOLEAN}

ClientArgs ==
    {[NoArgs EXCEPT !.content = c, !.endpoint = e, !.api_token = t, !.kind = k,
                    !.schema = s, !.flags = f] :
        c \in Contents, e \in {DEFAULT_ENDPOINT, Str(<<102, 116, 112, 58, 47, 47, 101, 120, 97, 109, 112, 108, 101, 46, 99, 111, 109>>)},
        t \in {NoneVal, Str(<<116, 111, 107>>)},
        k \in {"TASK_SUBMISSION", "task_submission"},
        s \in {Nat2Int(1), NegInt(1)}, f \in {Nat2Int(1), Big(2^15, 0)}}

SignArgs == {[NoArgs EXCEPT !.tx_json = t, !.installed = i] : t \in TxJsons, i \in BOOLEAN}

----------------------------------------------------------------------------
(* The calls *)

NoReply == Reply("none")

Init ==
    /\ \E o \in {"encode_varint", "encode_pointer_memo", "build_pointer_transaction",
                 "pin_content", "pin_content_via_web3_storage",
                 "pin_and_build_pointer", "sign_and_submit"} :
          /\ op = o
          /\ args \in CASE o = "encode_varint" -> EncodeVarintArgs
                        [] o = "encode_pointer_memo" -> EncodePointerMemoArgs
                        [] o = "build_pointer_transaction" -> BuildArgs
                        [] o = "pin_content" -> PinContentArgs
                        [] o = "pin_content_via_web3_storage" -> Web3Args
                        [] o = "pin_and_build_pointer" -> ClientArgs
                        [] o = "sign_and_submit" -> SignArgs
    /\ pc = "start"
    /\ out = Pending
    /\ calls = <<>>

Finish(r) == pc' = "done" /\ out' = r /\ UNCHANGED <<op, args>>
Await(service) ==
    /\ pc' = "awaiting"
    /\ calls' = Append(calls, [service |-> service, reply |-> NoReply])
    /\ UNCHANGED <<op, args, out>>
Received(reply) == calls' = [calls EXCEPT ![Len(calls)].reply = reply]
Awaiting(service) ==
    pc = "awaiting" /\ Len(calls) > 0 /\ calls[Len(calls)].service = service
        /\ calls[Len(calls)].reply = NoReply

EncodeVarint ==
    /\ op = "encode_varint" /\ pc = "start"
    /\ Finish(encode_varint(args.value))
    /\ UNCHANGED calls

EncodePointerMemo ==
    /\ op = "encode_pointer_memo" /\ pc = "start"
    /\ Finish(encode_pointer_memo(args.cid, args.kind, args.schema, args.flags,
                                  args.unknown8))
    /\ UNCHANGED calls

BuildPointerTransaction ==
    /\ op = "build_pointer_transaction" /\ pc = "start"
    /\ Finish(build_pointer_transaction(args.account, args.cid, args.kind,
                                        args.destination, args.schema, args.flags,
                                        args.amount_drops))
    /\ UNCHANGED calls

PinContentCall ==
    /\ op = "pin_content" /\ pc = "start"
    /\ LET r == pin_content_checks(args.content, args.endpoint, args.installed)
       IN  IF Raised(r) THEN Finish(r) /\ UNCHANGED calls ELSE Await("ipfs")

PinContentReturn ==
    /\ op = "pin_content" /\ Awaiting("ipfs")
    /\ \E reply \in PinReplies :
          /\ Received(reply)
          /\ Finish(pin_content_result(reply))

Web3Call ==
    /\ op = "pin_content_via_web3_storage" /\ pc = "start"
    /\ LET r == web3_checks(args.content, args.api_token, args.upload_url, args.installed)
       IN  IF Raised(r) THEN Finish(r) /\ UNCHANGED calls ELSE Await("web3.storage")

Web3Return ==
    /\ op = "pin_content_via_web3_storage" /\ Awaiting("web3.storage")
    /\ \E reply \in PinReplies :
          /\ Received(reply)
          /\ Finish(web3_result(reply))

ClientPinCall ==
    /\ op = "pin_and_build_pointer" /\ pc = "start"
    /\ LET r == client_pin_checks(args.content, args.endpoint, args.api_token,
                                  args.installed)
       IN  IF Raised(r) THEN Finish(r) /\ UNCHANGED calls
           ELSE Await(IF ~Falsy(args.api_token) THEN "web3.storage" ELSE "ipfs")

ClientPinReturn ==
    /\ op = "pin_and_build_pointer"
    /\ (Awaiting("ipfs") \/ Awaiting("web3.storage"))
    /\ \E reply \in PinReplies :
          /\ Received(reply)
          /\ Finish(client_pin_result(args.account, args.kind, args.schema, args.flags,
                                      args.api_token, reply))

SignCall ==
    /\ op = "sign_and_submit" /\ pc = "start"
    /\ LET r == sign_and_submit_checks(args.tx_json, args.installed)
       IN  IF Raised(r) THEN Finish(r) /\ UNCHANGED calls ELSE Await("sign")

SignReturn ==
    /\ op = "sign_and_submit" /\ Awaiting("sign")
    /\ \E reply \in SignReplies :
          LET r == sign_result(reply)
          IN  IF Raised(r) THEN Received(reply) /\ Finish(r)
              ELSE /\ calls' = Append([calls EXCEPT ![Len(calls)].reply = reply],
                                      [service |-> "submit", reply |-> NoReply])
                   /\ UNCHANGED <<op, args, pc, out>>

SubmitReturn ==
    /\ op = "sign_and_submit" /\ Awaiting("submit")
    /\ \E reply \in SubmitReplies :
          /\ Received(reply)
          /\ Finish(submit_result(reply))

Next ==
    \/ EncodeVarint
    \/ EncodePointerMemo
    \/ BuildPointerTransaction
    \/ PinContentCall
    \/ PinContentReturn
    \/ Web3Call
    \/ Web3Return
    \/ ClientPinCall
    \/ ClientPinReturn
    \/ SignCall
    \/ SignReturn
    \/ SubmitReturn

Spec == Init /\ [][Next]_vars

----------------------------------------------------------------------------
(* Reading the wire format back: an unsigned LEB128 decoder and a hex      *)
(* decoder, written from the format and not from the encoder               *)

Done(o) == op = o /\ pc = "done"

IntShl7Add(acc, d) ==
    LET x == acc.lo * 128 + d
    IN  Big(acc.hi * 128 + (x \div Limb), x % Limb)

RECURSIVE varint_decode(_)
varint_decode(b) ==
    IF Len(b) = 0 THEN Nat2Int(0)
    ELSE IntShl7Add(varint_decode(Tail(b)), Head(b) % 128)

\* Continuation bit on all but the last byte
WellFormedVarint(b) ==
    /\ Len(b) >= 1
    /\ \A i \in 1..(Len(b) - 1) : b[i] \in 128..255
    /\ b[Len(b)] \in 0..127

HasVarintAt(b, i) == \E j \in i..Len(b) : b[j] < 128
VarintEnd(b, i) == CHOOSE j \in i..Len(b) : b[j] < 128 /\ \A k \in i..(j - 1) : b[k] >= 128

\* b[i..] starts with the byte key and then the varint of v; the index after it, or 0
AfterVarintField(b, i, key, v) ==
    IF i >= 1 /\ i <= Len(b) /\ b[i] = key /\ HasVarintAt(b, i + 1)
    THEN LET e == VarintEnd(b, i + 1)
         IN  IF varint_decode(SubSeq(b, i + 1, e)) = v THEN e + 1 ELSE 0
    ELSE 0

\* b[i..] starts with key, the varint of the length of data, and data
AfterStringField(b, i, key, data) ==
    LET n == AfterVarintField(b, i, key, Nat2Int(Len(data)))
    IN  IF n >= 1 /\ SubSeq(b, n, n + Len(data) - 1) = data /\ n + Len(data) - 1 <= Len(b)
        THEN n + Len(data) ELSE 0

HexValue(c) == IF c \in 48..57 THEN c - 48 ELSE c - 97 + 10
IsLowerHex(h) ==
    /\ h.t = "str"
    /\ Len(h.s) % 2 = 0
    /\ \A i \in 1..Len(h.s) : h.s[i] \in (48..57) \cup (97..102)
unhex(h) == [i \in 1..(Len(h.s) \div 2) |-> 16 * HexValue(h.s[2 * i - 1]) + HexValue(h.s[2 * i])]

InRange(v) == v.t = "int" /\ ~v.neg /\ ~IntGt(v, Nat2Int(MAX_INT32))

----------------------------------------------------------------------------
(* Claims *)

\* C1: every payload encode_pointer_memo returns is exactly field 1 (key 0x0A,
\* the varint byte length of the UTF-8 CID, the CID bytes), field 2 (key 0x10,
\* varint schema), field 3 (key 0x18, varint 6), field 4 (key 0x20, varint
\* flags) and then field 8 (key 0x40, varint reserved) if and only if the
\* reserved value is not absent, with nothing else before, between or after.
C1_PayloadLayout ==
    (Done("encode_pointer_memo") /\ out.status = "return") =>
        LET b == out.value
            p2 == AfterStringField(b, 1, 10, Utf8(args.cid.s))
            p3 == AfterVarintField(b, p2, 16, args.schema)
            p4 == AfterVarintField(b, p3, 24, Nat2Int(6))
            p5 == AfterVarintField(b, p4, 32, args.flags)
            p6 == IF args.unknown8.t = "NoneType" THEN p5
                  ELSE AfterVarintField(b, p5, 64, args.unknown8)
        IN  /\ args.kind = "TASK_SUBMISSION"
            /\ p2 > 0 /\ p3 > 0 /\ p4 > 0 /\ p5 > 0
            /\ p6 = Len(b) + 1

C1_Witness ==
    /\ Done("encode_pointer_memo") /\ out.status = "return"
    /\ \E i \in 1..Len(args.cid.s) : args.cid.s[i] > 127
    /\ args.unknown8.t = "NoneType"

\* C2: a descriptor build_pointer_transaction returns is a Payment from the
\* account to the destination for the amount_drops string as given, with one
\* memo whose MemoType is the lowercase hex of "pf.ptr" and whose MemoData is
\* the lowercase hex of the pointer encoded with the reserved field equal to 1.
C2_Descriptor ==
    (Done("build_pointer_transaction") /\ out.status = "return") =>
        LET tx == out.value
            memo == tx.Memos[1].Memo
            payload == unhex(memo.MemoData)
            p2 == AfterStringField(payload, 1, 10, Utf8(args.cid.s))
            p3 == AfterVarintField(payload, p2, 16, args.schema)
            p4 == AfterVarintField(payload, p3, 24, Nat2Int(6))
            p5 == AfterVarintField(payload, p4, 32, args.flags)
            p6 == AfterVarintField(payload, p5, 64, Nat2Int(1))
        IN  /\ DOMAIN tx = {"TransactionType", "Account", "Destination", "Amount", "Memos"}
            /\ tx.TransactionType = "Payment"
            /\ tx.Account = args.account
            /\ tx.Destination = args.destination
            /\ tx.Amount = args.amount_drops
            /\ Len(tx.Memos) = 1
            /\ DOMAIN tx.Memos[1] = {"Memo"}
            /\ DOMAIN memo = {"MemoType", "MemoData"}
            \* "70662e707472"
            /\ memo.MemoType = Str(<<55, 48, 54, 54, 50, 101, 55, 48, 55, 52, 55, 50>>)
            /\ IsLowerHex(memo.MemoData)
            /\ payload = encode_pointer_memo(args.cid, args.kind, args.schema,
                                             args.flags, Nat2Int(1)).value
            /\ p2 > 0 /\ p3 > 0 /\ p4 > 0 /\ p5 > 0
            /\ p6 = Len(payload) + 1

C2_Witness ==
    /\ Done("build_pointer_transaction") /\ out.status = "return"
    /\ args.account /= args.destination
    \* "01"
    /\ args.amount_drops = Str(<<48, 49>>)

\* Everything build_pointer_transaction checks before the memo size holds
BuildInputsValid ==
    /\ ~Raised(validate_xrp_address(args.account))
    /\ ~Raised(validate_xrp_address(args.destination))
    /\ ~Raised(validate_cid(args.cid))
    /\ InRange(args.schema) /\ InRange(args.flags)
    /\ args.kind \in DOMAIN POINTER_KIND
    /\ ~Raised(check_amount_drops(args.amount_drops))

\* C3: build_pointer_transaction returns no descriptor whose memo payload is
\* longer than 1024 bytes; with otherwise valid inputs, a pointer of more than
\* 1024 bytes makes the call fail with the actual byte count and 1024 in the
\* message, and one of at most 1024 bytes (1024 included) is returned.
C3_MemoCeiling ==
    Done("build_pointer_transaction") =>
        /\ out.status = "return" =>
              Len(out.value.Memos[1].Memo.MemoData.s) <= 2 * 1024
        /\ BuildInputsValid =>
              LET n == Len(encode_pointer_memo(args.cid, args.kind, args.schema,
                                               args.flags, Nat2Int(1)).value)
              IN  /\ n > 1024 =>
                        /\ Raised(out)
                        /\ out.msg = <<"MemoData too large: ", n, " bytes (max ", 1024, ")">>
                  /\ n <= 1024 =>
                        /\ out.status = "return"
                        /\ Len(out.value.Memos[1].Memo.MemoData.s) = 2 * n

C3_Witness ==
    /\ Done("build_pointer_transaction") /\ out.status = "return"
    /\ Len(out.value.Memos[1].Memo.MemoData.s) = 2 * 1024

C3_WitnessTooLarge ==
    /\ Done("build_pointer_transaction") /\ Raised(out) /\ BuildInputsValid
    /\ Len(args.cid.s) = 1024 - 10

\* C6: build_pointer_transaction surfaces the error of the first failing check
\* in the order account, destination, CID, schema, flags, pointer kind,
\* amount, memo size; with no failing check it returns.
BuildChecks ==
    LET fields == <<validate_xrp_address(args.account),
                    validate_xrp_address(args.destination),
                    validate_cid(args.cid),
                    validate_non_negative_int(args.schema, "schema"),
                    validate_non_negative_int(args.flags, "flags"),
                    IF args.kind \in DOMAIN POINTER_KIND THEN Return(NoValue)
                    ELSE Raise("ValueError", <<"Unknown pointer kind: ", args.kind>>, "")>>
        encodable == \A i \in 1..Len(fields) : ~Raised(fields[i])
    IN  fields \o
        <<check_amount_drops(args.amount_drops),
          IF encodable
          THEN check_memo_size(encode_pointer_fields(args.cid, args.kind, args.schema,
                                                     args.flags, Nat2Int(1)))
          ELSE Return(NoValue)>>

C6_FirstFailingCheck ==
    Done("build_pointer_transaction") =>
        /\ \A i \in 1..Len(BuildChecks) :
              (Raised(BuildChecks[i]) /\ \A j \in 1..(i - 1) : ~Raised(BuildChecks[j]))
                  => (Raised(out) /\ out.msg = BuildChecks[i].msg)
        /\ (\A i \in 1..Len(BuildChecks) : ~Raised(BuildChecks[i])) => out.status = "return"

C6_Witness ==
    /\ Done("build_pointer_transaction") /\ Raised(out)
    /\ Raised(BuildChecks[1]) /\ Raised(BuildChecks[3]) /\ Raised(BuildChecks[4])
    /\ Raised(BuildChecks[6]) /\ Raised(BuildChecks[7])

\* C7: encode_pointer_memo fails on an unrecognized kind with an error naming
\* it, whatever the other arguments; with a recognized kind it surfaces the
\* error of the first failing check in the order cid, schema, flags, reserved
\* (reserved only when present); a failure returns no bytes.
EncodeChecks ==
    <<validate_cid(args.cid),
      validate_non_negative_int(args.schema, "schema"),
      validate_non_negative_int(args.flags, "flags"),
      IF args.unknown8.t = "NoneType" THEN Return(NoValue)
      ELSE validate_non_negative_int(args.unknown8, "unknown8")>>

C7_KindThenFields ==
    Done("encode_pointer_memo") =>
        /\ args.kind /= "TASK_SUBMISSION" =>
              (Raised(out) /\ out.msg = <<"Unknown pointer kind: ", args.kind>>)
        /\ args.kind = "TASK_SUBMISSION" =>
              /\ \A i \in 1..Len(EncodeChecks) :
                    (Raised(EncodeChecks[i])
                        /\ \A j \in 1..(i - 1) : ~Raised(EncodeChecks[j]))
                        => (Raised(out) /\ out.msg = EncodeChecks[i].msg)
              /\ (\A i \in 1..Len(EncodeChecks) : ~Raised(EncodeChecks[i]))
                    => out.status = "return"
        /\ Raised(out) => out.value = NoValue

C7_Witness ==
    /\ Done("encode_pointer_memo") /\ Raised(out)
    /\ args.kind /= "TASK_SUBMISSION"
    /\ Raised(EncodeChecks[1]) /\ Raised(EncodeChecks[2]) /\ Raised(EncodeChecks[4])

\* C8: with otherwise valid inputs build_pointer_transaction returns exactly
\* when amount_drops is a non-empty string of the decimal digits 0-9 whose
\* value is greater than 0.
PositiveDecimalString(a) ==
    /\ a.t = "str"
    /\ Len(a.s) > 0
    /\ \A i \in 1..Len(a.s) : a.s[i] \in 48..57
    /\ \E i \in 1..Len(a.s) : a.s[i] /= 48

C8_AmountRule ==
    (/\ Done("build_pointer_transaction")
     /\ \A i \in {1, 2, 3, 4, 5, 6, 8} : ~Raised(BuildChecks[i]))
        => (out.status = "return" <=> PositiveDecimalString(args.amount_drops))

\* C9 as stated: a v in 0..2^31-1 is encoded and decodes to v, and the varint
\* encoding of any other v fails.
C9_VarintFailsOutOfRange ==
    Done("encode_varint") =>
        /\ InRange(args.value) =>
              (out.status = "return" /\ WellFormedVarint(out.value)
                  /\ varint_decode(out.value) = args.value)
        /\ ~InRange(args.value) => Raised(out)

\* C9 as the code has it: the varint encoder encodes every v >= 0, above
\* 2^31-1 too, with the continuation bit on all but the last byte, and the
\* result decodes to v; it fails only for a negative v. The range 0..2^31-1 is
\* enforced by validate_non_negative_int: encode_pointer_memo fails when
\* schema, flags or a present reserved value lies outside it.
C9_VarintRoundTrip ==
    /\ Done("encode_varint") =>
          /\ ~args.value.neg =>
                (out.status = "return" /\ WellFormedVarint(out.value)
                    /\ \A i \in 1..Len(out.value) : out.value[i] \in 0..255
                    /\ varint_decode(out.value) = args.value)
          /\ args.value.neg => (Raised(out) /\ out.exc = "ValueError")
    /\ Done("encode_pointer_memo") =>
          ((\E v \in {args.schema, args.flags, args.unknown8} :
                v.t /= "NoneType" /\ ~InRange(v)) => Raised(out))

C9_Witness ==
    /\ Done("encode_varint") /\ out.status = "return"
    /\ ~InRange(args.value)
    /\ Len(out.value) > 5

C9_WitnessInRange ==
    /\ Done("encode_varint") /\ out.status = "return"
    /\ args.value = Nat2Int(MAX_INT32)
    /\ out.value = <<255, 255, 255, 255, 7>>

\* C10: sign_and_submit returns only after signing and submission succeeded
\* with engine result "tesSUCCESS", and then returns the non-empty hash of the
\* result; every other outcome raises SigningError; nothing is submitted
\* after a signing failure, and nothing is signed for an empty or non-dict
\* descriptor.
SubmitSucceeded ==
    /\ Len(calls) = 2
    /\ calls[1].service = "sign" /\ calls[1].reply.kind = "signed"
    /\ calls[2].service = "submit" /\ calls[2].reply.kind = "result"
    /\ calls[2].reply.result.engine_result = Text("tesSUCCESS")
    /\ \/ ~Falsy(calls[2].reply.result.hash)
       \/ calls[2].reply.result.has_tx_json /\ ~Falsy(calls[2].reply.result.tx_json_hash)

C10_HashOnlyOnSuccess ==
    op = "sign_and_submit" =>
        /\ \A i \in 1..Len(calls) :
              calls[i].service = "submit" =>
                  (i = 2 /\ calls[1].service = "sign" /\ calls[1].reply.kind = "signed")
        /\ (args.tx_json.t /= "dict" \/ args.tx_json.d = {} \/ ~args.installed)
              => calls = <<>>
        /\ pc = "done" =>
              /\ SubmitSucceeded =>
                    /\ out.status = "return"
                    /\ ~Falsy(out.value)
                    /\ out.value \in {calls[2].reply.result.hash,
                                      calls[2].reply.result.tx_json_hash}
              /\ ~SubmitSucceeded =>
                    (Raised(out) /\ out.exc = "SigningError" /\ out.value = NoValue)

C10_Witness ==
    /\ Done("sign_and_submit") /\ out.status = "return"
    /\ Falsy(calls[2].reply.result.hash)
    /\ out.value = calls[2].reply.result.tx_json_hash

\* C4: pin_and_build_pointer calls the pinning service only when content,
\* kind, schema and flags are all valid.
C4_PinnedOnlyValidInputs ==
    (op = "pin_and_build_pointer" /\ Len(calls) > 0) =>
        /\ ~Raised(validate_nonempty_content(args.content))
        /\ args.kind \in DOMAIN POINTER_KIND
        /\ InRange(args.schema)
        /\ InRange(args.flags)

\* C5: on the pinning path a failure caused by invalid caller input (empty
\* content, malformed URL) never carries the error kind (exception class and
\* the class it was raised from) that a failure of the pinning service carries.
PinOps == {"pin_content", "pin_content_via_web3_storage", "pin_and_build_pointer"}

ServiceFailure(o, reply) ==
    CASE o = "pin_content" -> pin_content_result(reply)
      [] o = "pin_content_via_web3_storage" -> web3_result(reply)
      [] o = "pin_and_build_pointer" ->
            client_pin_result(TEST_ADDRESS, "TASK_SUBMISSION", Nat2Int(1), Nat2Int(1),
                              NoneVal, reply)

ServiceFailureKinds(o) ==
    {<<ServiceFailure(o, r).exc, ServiceFailure(o, r).cause>> :
        r \in {Reply("raise"), Reply("timeout")}}

InvalidPinInput ==
    \/ Raised(validate_nonempty_content(args.content))
    \/ op = "pin_content" /\ Raised(validate_url(args.endpoint))
    \/ op = "pin_content_via_web3_storage" /\ Raised(validate_url(args.upload_url))
    \/ op = "pin_and_build_pointer" /\ Falsy(args.api_token)
          /\ Raised(validate_url(args.endpoint))

C5_InputAndServiceFailuresDiffer ==
    (op \in PinOps /\ pc = "done" /\ Raised(out) /\ calls = <<>> /\ InvalidPinInput)
        => <<out.exc, out.cause>> \notin ServiceFailureKinds(op)

====
